---- MODULE Spec2Model ----
(***************************************************************************)
(* The profile importer of omniport-shell (utils/create_user.py): the      *)
(* relational store it writes to and its operations create_user,           *)
(* create_faculty, create_student and populate_details.                    *)
(*                                                                         *)
(* A Python str is a sequence of one-character strings, a dict a function  *)
(* from its keys, an exception the name of its class ("none": no           *)
(* exception).  Every operation is one action: the whole call.             *)
(***************************************************************************)
EXTENDS Integers, Sequences, FiniteSets, TLC

VARIABLES users, persons, info, residences, students, faculty, schema, last, calls

vars == <<users, persons, info, residences, students, faculty, schema, last, calls>>

\* The number of calls a behaviour makes, for each specification.
MaxCalls == 2

MaxUserCalls == 2

MaxRoleCalls == 4

MaxDetailsCalls == 3

MaxImportCalls == 3

----------------------------------------------------------------------------
(* Python values *)

\* None, and a key a dict does not hold: no str is equal to either.
None == <<"None">>

Absent == <<"Absent">>

\* x or y
Or(x, y) == IF x = None \/ x = <<>> THEN y ELSE x

\* d.get(k, default)
Get(d, k, default) == IF k \in DOMAIN d THEN d[k] ELSE default

\* The dict holding the keys of all whose value is not Absent.
Dict(all) == [k \in {x \in DOMAIN all : all[x] # Absent} |-> all[k]]

UpperChars == <<"A", "B", "C", "D", "E", "F", "G", "H", "I", "J", "K", "L", "M",
                "N", "O", "P", "Q", "R", "S", "T", "U", "V", "W", "X", "Y", "Z">>

LowerChars == <<"a", "b", "c", "d", "e", "f", "g", "h", "i", "j", "k", "l", "m",
                "n", "o", "p", "q", "r", "s", "t", "u", "v", "w", "x", "y", "z">>

\* The lower-case letter of each upper-case letter, and the converse.
LowerOf ==
    [c \in {UpperChars[i] : i \in DOMAIN UpperChars} |->
        LowerChars[CHOOSE i \in DOMAIN UpperChars : UpperChars[i] = c]]

UpperOf ==
    [c \in {LowerChars[i] : i \in DOMAIN LowerChars} |->
        UpperChars[CHOOSE i \in DOMAIN LowerChars : LowerChars[i] = c]]

IsUpperCh(c) == c \in DOMAIN LowerOf

IsLowerCh(c) == c \in DOMAIN UpperOf

LowerCh(c) == IF IsUpperCh(c) THEN LowerOf[c] ELSE c

UpperCh(c) == IF IsLowerCh(c) THEN UpperOf[c] ELSE c

\* str.lower(), str.upper()
Lower(s) == [i \in 1..Len(s) |-> LowerCh(s[i])]

Upper(s) == [i \in 1..Len(s) |-> UpperCh(s[i])]

\* str.title(): a letter after a letter is lowered, any other letter raised.
Title(s) ==
    [i \in 1..Len(s) |->
        IF i > 1 /\ (IsUpperCh(s[i - 1]) \/ IsLowerCh(s[i - 1]))
        THEN LowerCh(s[i])
        ELSE UpperCh(s[i])]

\* s.startswith(p)
StartsWith(s, p) == Len(s) >= Len(p) /\ SubSeq(s, 1, Len(p)) = p

\* s.replace(old, ''), old not empty: every occurrence, left to right.
RECURSIVE Remove(_, _)
Remove(s, old) ==
    IF Len(s) < Len(old) THEN s
    ELSE IF StartsWith(s, old)
         THEN Remove(SubSeq(s, Len(old) + 1, Len(s)), old)
         ELSE <<Head(s)>> \o Remove(Tail(s), old)

\* s.split(sep), sep one character: the list of the pieces.
RECURSIVE Split(_, _)
Split(s, sep) ==
    IF \A i \in 1..Len(s) : s[i] # sep THEN <<s>>
    ELSE LET i == CHOOSE j \in 1..Len(s) :
                      s[j] = sep /\ \A k \in 1..(j - 1) : s[k] # sep
         IN  <<SubSeq(s, 1, i - 1)>> \o Split(SubSeq(s, i + 1, Len(s)), sep)

\* s.strip(chars): the characters of the set chars off both ends.
RECURSIVE Strip(_, _)
Strip(s, chars) ==
    IF s = <<>> THEN s
    ELSE IF Head(s) \in chars THEN Strip(Tail(s), chars)
    ELSE IF s[Len(s)] \in chars THEN Strip(SubSeq(s, 1, Len(s) - 1), chars)
    ELSE s

\* What str.strip() takes off: white space.
Whitespace == {" ", "\t", "\n", "\r"}

----------------------------------------------------------------------------
(* The store *)

Kinds == {"location", "contact", "political", "biological", "financial", "residential"}

\* The store as one value, for the operators that compute a call's result.
DB ==
    [users |-> users, persons |-> persons, info |-> info,
     residences |-> residences, students |-> students, faculty |-> faculty]

EmptyDB ==
    [users |-> {}, persons |-> {}, info |-> [k \in Kinds |-> {}],
     residences |-> {}, students |-> {}, faculty |-> {}]

\* The primary key the store gives the next row of a table (no row is ever deleted).
NewId(table) == Cardinality(table) + 1

\* The result of a call, or of a part of one: the store it leaves, the exception
\* it raises and the value it returns.
Result(db, exc, value) == [db |-> db, exc |-> exc, value |-> value]

\* CharField(max_length=15) of User.username, the limit create_user checks.
UsernameMaxLength == 15

\* User.objects.get_or_create(username=username).  get_or_create validates
\* nothing; an insert the column refuses (schema.username_max_length) raises.
GetOrCreateUser(db, username) ==
    IF \E u \in db.users : u.username = username
    THEN Result(db, "none", CHOOSE u \in db.users : u.username = username)
    ELSE IF schema.username_max_length /\ username # None
                                        /\ Len(username) > UsernameMaxLength
    THEN Result(db, "DataError", None)
    ELSE LET u == [id |-> NewId(db.users), username |-> username]
         IN  Result([db EXCEPT !.users = @ \cup {u}], "none", u)

\* Person.objects.create(user=..., full_name=...); user 0 is no user.
CreatePerson(db, user, full_name) ==
    IF schema.person_user_unique /\ user # 0 /\ \E p \in db.persons : p.user = user
    THEN Result(db, "IntegrityError", None)
    ELSE LET p == [id |-> NewId(db.persons), user |-> user,
                   full_name |-> full_name, parents |-> {}]
         IN  Result([db EXCEPT !.persons = @ \cup {p}], "none", p)

\* Person.objects.create where the code gets or creates.
AlwaysCreatePerson(db, user, full_name) == CreatePerson(db, user, full_name)

\* Person.objects.get_or_create(user=user, full_name=full_name)
GetOrCreatePerson(db, user, full_name) ==
    LET found == {p \in db.persons : p.user = user /\ p.full_name = full_name}
    IN  IF found # {}
        THEN Result(db, "none", CHOOSE p \in found : TRUE)
        ELSE CreatePerson(db, user, full_name)

----------------------------------------------------------------------------
(* create_user *)

IitrDomain == <<"i", "i", "t", "r", ".", "a", "c", ".", "i", "n">>

\* The derivation done only when the caller supplied no username.
FacultyUsernameIfNone(username, is_faculty, acad_data) ==
    IF ~is_faculty \/ username # None THEN username
    ELSE LET uname == Split(Remove(Get(acad_data, "IITREmailID", <<>>), IitrDomain), "@")
         IN  IF Len(uname) > 1
             THEN IF uname[2] = <<>> THEN uname[1]
                  ELSE uname[1] \o <<"f">> \o Strip(uname[2], {"."})
             ELSE username

\* Lines 21-28: the username create_user goes on with.
FacultyUsername(username, is_faculty, acad_data) ==
    IF ~is_faculty THEN username
    ELSE LET uname == Split(Remove(Get(acad_data, "IITREmailID", <<>>), IitrDomain), "@")
         IN  IF Len(uname) > 1
             THEN IF uname[2] = <<>> THEN uname[1]
                  ELSE uname[1] \o <<"f">> \o Strip(uname[2], {"."})
             ELSE username

\* Line 30: the check that raises ValueError.
UsernameRefused(username) == username = None \/ Len(username) > UsernameMaxLength

\* create_user(username, is_faculty, acad_data): the store it leaves, what it
\* raises and the (user, person) it returns.
create_user(db, username, is_faculty, acad_data) ==
    LET uname == FacultyUsername(username, is_faculty, acad_data)
    IN  IF is_faculty /\ UsernameRefused(uname)
        THEN Result(db, "ValueError", None)
        ELSE LET u == GetOrCreateUser(db, uname)
             IN  IF u.exc # "none" THEN Result(u.db, u.exc, None)
                 ELSE IF "Name" \notin DOMAIN acad_data
                 THEN Result(u.db, "KeyError", None)
                 ELSE LET p == GetOrCreatePerson(u.db, u.value.id,
                                                 Title(acad_data["Name"]))
                      IN  IF p.exc # "none" THEN Result(p.db, p.exc, None)
                          ELSE Result(p.db, "none",
                                      [user |-> u.value, person |-> p.value])

----------------------------------------------------------------------------
(* Conversions *)

Digits == <<"0", "1", "2", "3", "4", "5", "6", "7", "8", "9">>

IsDigit(c) == \E i \in DOMAIN Digits : Digits[i] = c

DigitValue(c) == (CHOOSE i \in DOMAIN Digits : Digits[i] = c) - 1

\* Whether int(s) returns: digits, white space around them allowed.
IsInt(s) ==
    LET t == Strip(s, Whitespace)
    IN  t # <<>> /\ \A i \in 1..Len(t) : IsDigit(t[i])

RECURSIVE DigitsValue(_)
DigitsValue(t) ==
    IF t = <<>> THEN 0
    ELSE 10 * DigitsValue(SubSeq(t, 1, Len(t) - 1)) + DigitValue(t[Len(t)])

\* int(s)
IntOf(s) == DigitsValue(Strip(s, Whitespace))

IsLeap(y) == (y % 4 = 0 /\ y % 100 # 0) \/ y % 400 = 0

DaysIn(y, m) ==
    IF m = 2 THEN (IF IsLeap(y) THEN 29 ELSE 28)
    ELSE IF m \in {4, 6, 9, 11} THEN 30 ELSE 31

\* A field of the format: digits, between lo and hi of them.
IsField(t, lo, hi) ==
    Len(t) >= lo /\ Len(t) <= hi /\ \A i \in 1..Len(t) : IsDigit(t[i])

\* datetime.datetime.strptime(s, "%Y-%m-%dT%H:%M:%S").date(): ok is whether it
\* returns (it raises ValueError otherwise), date the date it returns.
StrpDate(s) ==
    LET dt == Split(s, "T")
        ymd == IF Len(dt) = 2 THEN Split(dt[1], "-") ELSE <<>>
        hms == IF Len(dt) = 2 THEN Split(dt[2], ":") ELSE <<>>
        shaped ==
            /\ Len(ymd) = 3 /\ Len(hms) = 3
            /\ IsField(ymd[1], 4, 4) /\ IsField(ymd[2], 1, 2) /\ IsField(ymd[3], 1, 2)
            /\ \A i \in 1..3 : IsField(hms[i], 1, 2)
        y == DigitsValue(ymd[1])
        m == DigitsValue(ymd[2])
        d == DigitsValue(ymd[3])
        ok ==
            /\ shaped
            /\ y >= 1 /\ m >= 1 /\ m <= 12 /\ d >= 1 /\ d <= DaysIn(y, m)
            /\ DigitsValue(hms[1]) <= 23
            /\ DigitsValue(hms[2]) <= 59
            /\ DigitsValue(hms[3]) <= 59
    IN  [ok |-> ok, date |-> IF ok THEN <<y, m, d>> ELSE <<>>]

\* datetime.datetime.now(), and its date
Now == <<"now">>

Today == <<"today">>

----------------------------------------------------------------------------
(* Reference data *)

\* django_countries.data.COUNTRIES: code -> name (two of its rows).
COUNTRIES ==
    <<[code |-> <<"I", "N">>, name |-> <<"I", "n", "d", "i", "a">>],
      [code |-> <<"N", "P">>, name |-> <<"N", "e", "p", "a", "l">>]>>

\* pseudoc.constants.CATEGORIES: category name -> code.
CATEGORIES ==
    <<[name |-> <<"G", "e", "n", "e", "r", "a", "l">>, code |-> <<"g", "e", "n">>],
      [name |-> <<"O", "B", "C">>, code |-> <<"o", "b", "c">>]>>

\* pseudoc.constants.DEPTS: department alpha code -> Department code.
DEPTS ==
    <<[name |-> <<"c", "s", "e">>, code |-> <<"c", "s">>],
      [name |-> <<"e", "e">>, code |-> <<"e", "l">>]>>

\* pseudoc.constants.DESIGNATION_DICT: designation -> code.
DESIGNATION_DICT ==
    <<[name |-> <<"p", "r", "o", "f", "e", "s", "s", "o", "r">>, code |-> <<"p", "r", "f">>]>>

\* shell.constants.residences.RESIDENCES: (code, name) pairs.
RESIDENCES ==
    <<[code |-> <<"r", "k", "b">>, name |-> <<"R", "a", "j", "i", "v">>],
      [code |-> <<"c", "a", "u">>, name |-> <<"C", "a", "u", "t", "l", "e", "y">>]>>

\* The Department and Branch rows of the store.
DepartmentCodes == {<<"c", "s">>}

BranchCodes == {<<"1", "1">>}

\* table[key], table a sequence of (name, code) rows: has is whether key is a name.
Has(table, key) == \E i \in DOMAIN table : table[i].name = key

Lookup(table, key) ==
    table[CHOOSE i \in DOMAIN table :
              table[i].name = key /\ \A j \in 1..(i - 1) : table[j].name # key].code

\* The code of the first row whose name is s but for case, or default.
CodeByName(table, s, default) ==
    LET low == Lower(s)
        hits == {i \in DOMAIN table : Lower(table[i].name) = low}
    IN  IF hits = {} THEN default
        ELSE table[CHOOSE i \in hits : \A j \in hits : i <= j].code

----------------------------------------------------------------------------
(* create_faculty and create_student *)

\* Whether the person has a row in the table.
HasRow(table, person) == \E r \in table : r.person = person

\* A role row (FacultyMember, Student) saved: a person has one row of a role.
InsertRole(table, row) ==
    IF HasRow(table, row.person)
    THEN [table |-> table, exc |-> "IntegrityError"]
    ELSE [table |-> table \cup {row}, exc |-> "none"]

\* create_faculty(data, person_object).  The arguments of get_or_create are
\* evaluated first, in their order; the row of the employee id is returned when
\* there is one, whoever its person is, and created with the defaults otherwise.
create_faculty(db, data, person) ==
    IF "EmployeeNo" \notin DOMAIN data THEN Result(db, "KeyError", None)
    ELSE IF ~IsInt(data["EmployeeNo"]) THEN Result(db, "ValueError", None)
    ELSE IF "DepartmentAlphaCode" \notin DOMAIN data THEN Result(db, "KeyError", None)
    ELSE IF ~Has(DEPTS, Lower(data["DepartmentAlphaCode"]))
    THEN Result(db, "KeyError", None)
    ELSE IF Lookup(DEPTS, Lower(data["DepartmentAlphaCode"])) \notin DepartmentCodes
    THEN Result(db, "DoesNotExist", None)
    ELSE IF "Designation" \notin DOMAIN data THEN Result(db, "KeyError", None)
    ELSE LET employee_id == IntOf(data["EmployeeNo"])
             found == {f \in db.faculty : f.employee_id = employee_id}
             designation == Lower(data["Designation"])
             row == [employee_id |-> employee_id,
                     content_object |-> Lookup(DEPTS, Lower(data["DepartmentAlphaCode"])),
                     start_date |-> Now,
                     person |-> person,
                     designation |-> IF Has(DESIGNATION_DICT, designation)
                                     THEN Lookup(DESIGNATION_DICT, designation)
                                     ELSE None]
             ins == InsertRole(db.faculty, row)
         IN  IF found # {}
             THEN Result(db, "none", [faculty |-> CHOOSE f \in found : TRUE,
                                      created |-> FALSE])
             ELSE IF ins.exc # "none" THEN Result(db, ins.exc, None)
             ELSE Result([db EXCEPT !.faculty = ins.table], "none",
                         [faculty |-> row, created |-> TRUE])

\* student[key], student a Student: a model instance takes no subscript.
StudentItem(student, key) == [exc |-> "TypeError", value |-> None]

\* Lines 87-95, the body of the try: the first exception ends it; the rows
\* created before it stay.
Guardians(db, student, data, person) ==
    LET fname == StudentItem(student, "Fathersname")
        father == CreatePerson(db, 0, Title(fname.value))
        mname == StudentItem(student, "MotherName")
        mother == CreatePerson(father.db, 0, Title(mname.value))
        both == {father.value.id, mother.value.id}
    IN  IF fname.exc # "none" THEN Result(db, fname.exc, None)
        ELSE IF father.exc # "none" THEN Result(father.db, father.exc, None)
        ELSE IF mname.exc # "none" THEN Result(father.db, mname.exc, None)
        ELSE IF mother.exc # "none" THEN Result(mother.db, mother.exc, None)
        ELSE Result([mother.db EXCEPT !.persons =
                        {IF p.id = person THEN [p EXCEPT !.parents = @ \cup both] ELSE p
                            : p \in @}],
                    "none", None)

\* try: ... except KeyError: pass
TryExceptOnlyKeyError(r) == IF r.exc = "KeyError" THEN [r EXCEPT !.exc = "none"] ELSE r

\* try: ... except: pass
TryExcept(r) == [r EXCEPT !.exc = "none"]

\* Lines 82-84: the year and the semester of a semester code, its second and
\* third characters.
CurrentYear(sem_id) == DigitValue(sem_id[2])

\* The semester counted from 0.
CurrentSemesterFromZero(sem_id) == (DigitValue(sem_id[2]) - 1) * 2 + DigitValue(sem_id[3])

CurrentSemester(sem_id) == (DigitValue(sem_id[2]) - 1) * 2 + DigitValue(sem_id[3]) + 1

\* create_student(data, person_object)
create_student(db, data, person) ==
    IF "SemesterID" \notin DOMAIN data THEN Result(db, "KeyError", None)
    ELSE LET sem_id == data["SemesterID"]
         IN  IF "EnrollmentNo" \notin DOMAIN data THEN Result(db, "KeyError", None)
             ELSE IF ~IsInt(data["EnrollmentNo"]) THEN Result(db, "ValueError", None)
             ELSE IF "ProgramID" \notin DOMAIN data THEN Result(db, "KeyError", None)
             ELSE IF data["ProgramID"] \notin BranchCodes
             THEN Result(db, "DoesNotExist", None)
             ELSE IF Len(sem_id) < 2 THEN Result(db, "IndexError", None)
             ELSE IF ~IsDigit(sem_id[2]) THEN Result(db, "ValueError", None)
             ELSE IF Len(sem_id) < 3 THEN Result(db, "IndexError", None)
             ELSE IF ~IsDigit(sem_id[3]) THEN Result(db, "ValueError", None)
             ELSE LET student == [start_date |-> Now,
                                  person |-> person,
                                  enrolment_number |-> IntOf(data["EnrollmentNo"]),
                                  branch |-> data["ProgramID"],
                                  current_year |-> CurrentYear(sem_id),
                                  current_semester |-> CurrentSemester(sem_id)]
                      g == TryExcept(Guardians(db, student, data, person))
                      ins == InsertRole(g.db.students, student)
                  IN  IF ins.exc # "none" THEN Result(g.db, ins.exc, None)
                      ELSE Result([g.db EXCEPT !.students = ins.table], "none", student)

----------------------------------------------------------------------------
(* populate_details *)

\* <Kind>Information.objects.create(...): a person has one row of a kind.
CreateInfo(db, kind, row) ==
    IF HasRow(db.info[kind], row.person)
    THEN Result(db, "IntegrityError", None)
    ELSE Result([db EXCEPT !.info[kind] = @ \cup {row}], "none", row)

\* The saved row of a kind replaced by row (<instance>.save()).
SaveInfo(db, kind, row) ==
    [db EXCEPT !.info[kind] = {r \in @ : r.person # row.person} \cup {row}]

\* Lines 112-117 and 199-204: the country the record names, "IN" by default.
CountryCode(details) ==
    LET nationality == Or(Get(details, "Nationality", <<>>),
                          Or(Get(details, "Pcountry", <<>>), <<>>))
    IN  CodeByName(COUNTRIES, nationality, <<"I", "N">>)

\* populate_location_info(location_information, details): it returns True.
populate_location_info(db, row, details) ==
    Result(SaveInfo(db, "location",
                    [row EXCEPT !.address = Or(Get(details, "PermanentAddress", <<>>), <<>>),
                                !.state = Or(Get(details, "State", <<>>), <<>>),
                                !.city = Or(Get(details, "City", <<>>), <<>>),
                                !.country = CountryCode(details)]),
           "none", TRUE)

\* populate_contact_info(contact_information, details): True, or False when a
\* key it subscripts is missing, and then nothing is saved.
populate_contact_info(db, row, details) ==
    IF ~({"EmailID", "IITREmailID"} \subseteq DOMAIN details)
    THEN Result(db, "none", FALSE)
    ELSE Result(SaveInfo(db, "contact",
                    [row EXCEPT !.primary_phone_number = Get(details, "Mobileno", None),
                                !.secondary_phone_number = Get(details, "ContactNo", None),
                                !.email_address = details["EmailID"],
                                !.institute_webmail_address =
                                    Get(details, "PRIEMAIL", details["IITREmailID"])]),
                "none", TRUE)

\* Lines 171-175
LocationSection(db, person, details) ==
    LET c == CreateInfo(db, "location",
                        [person |-> person, address |-> <<>>, state |-> <<>>,
                         city |-> <<>>, country |-> <<>>])
    IN  IF c.exc # "none" THEN c ELSE populate_location_info(c.db, c.value, details)

\* Lines 183-186
ContactSection(db, person, details) ==
    LET c == CreateInfo(db, "contact",
                        [person |-> person, primary_phone_number |-> None,
                         secondary_phone_number |-> None, email_address |-> <<>>,
                         institute_webmail_address |-> <<>>])
    IN  IF c.exc # "none" THEN c ELSE populate_contact_info(c.db, c.value, details)

\* Lines 194-213
PoliticalSection(db, person, details) ==
    LET category == Get(details, "Category", <<"o", "t", "h", "e", "r">>)
    IN  CreateInfo(db, "political",
            [person |-> person,
             nationality |-> CountryCode(details),
             religion |-> Title(Or(Get(details, "Religion", <<>>), <<>>)),
             reservation_category |->
                 IF Has(CATEGORIES, category) THEN Lookup(CATEGORIES, category)
                 ELSE <<"o", "t", "h">>])

all_blood_groups ==
    {<<"O", "+">>, <<"O", "-">>, <<"A", "+">>, <<"A", "-">>,
     <<"B", "+">>, <<"B", "-">>, <<"A", "B", "+">>, <<"A", "B", "-">>}

\* The blood group without the default for a value outside the eight.
BloodGroupAsIs(details) ==
    Remove(Strip(Upper(Or(Get(details, "BloodGroup", <<"O", "+">>), <<"O", "+">>)),
                 Whitespace),
           <<" ">>)

\* Lines 224-228: the blood group saved.
BloodGroup(details) ==
    LET blood_group ==
            Remove(Strip(Upper(Or(Get(details, "BloodGroup", <<"O", "+">>), <<"O", "+">>)),
                         Whitespace),
                   <<" ">>)
    IN  IF blood_group \notin all_blood_groups THEN <<"O", "+">> ELSE blood_group

\* details.get(key, False) taken as a condition
Truthy(details, key) ==
    key \in DOMAIN details /\ details[key] # None /\ details[key] # <<>>

\* Lines 221-259
BiologicalSection(db, person, details) ==
    LET dob == StrpDate(details["DateofBirth"])
        female == Truthy(details, "Gender")
                      /\ StartsWith(Lower(details["Gender"]), <<"f">>)
    IN  IF Truthy(details, "DateofBirth") /\ ~dob.ok
        THEN Result(db, "ValueError", None)
        ELSE CreateInfo(db, "biological",
                [person |-> person,
                 date_of_birth |-> IF Truthy(details, "DateofBirth") THEN dob.date
                                   ELSE Today,
                 blood_group |-> BloodGroup(details),
                 sex |-> IF Truthy(details, "Gender") THEN Lower(details["Gender"])
                         ELSE <<"m", "a", "l", "e">>,
                 gender |-> IF female THEN "woman" ELSE "man",
                 pronoun |-> IF female THEN "s" ELSE "h",
                 impairment |-> "n"])

\* Lines 266-268
FinancialSection(db, person, details) ==
    CreateInfo(db, "financial", [person |-> person])

\* Residence.objects.get_or_create(code=code)[0]
GetOrCreateResidence(db, code) ==
    Result([db EXCEPT !.residences = @ \cup {code}], "none", code)

NotAResident == <<"n", "o", "r">>

\* Lines 276-280: the loop subscripts details['Bhawan'] at its first row.
BhawanCode(details) ==
    IF "Bhawan" \notin DOMAIN details THEN [exc |-> "KeyError", value |-> None]
    ELSE IF details["Bhawan"] = None THEN [exc |-> "AttributeError", value |-> None]
    ELSE [exc |-> "none",
          value |-> CodeByName(RESIDENCES, details["Bhawan"], NotAResident)]

\* Lines 276-286
ResidentialSection(db, person, details) ==
    LET bhawan_code == BhawanCode(details)
        residence == GetOrCreateResidence(db, bhawan_code.value)
    IN  IF bhawan_code.exc # "none" THEN Result(db, bhawan_code.exc, None)
        ELSE CreateInfo(residence.db, "residential",
                 [person |-> person,
                  residence |-> residence.value,
                  room_number |-> Get(details, "RoomNo", <<"N", "I", "L">>)])

\* One section of populate_details: its try body.
Section(kind, db, person, details) ==
    CASE kind = "location" -> LocationSection(db, person, details)
      [] kind = "contact" -> ContactSection(db, person, details)
      [] kind = "political" -> PoliticalSection(db, person, details)
      [] kind = "biological" -> BiologicalSection(db, person, details)
      [] kind = "financial" -> FinancialSection(db, person, details)
      [] kind = "residential" -> ResidentialSection(db, person, details)

\* The sections in the order populate_details runs them.
Sections == <<"location", "contact", "political", "biological", "financial", "residential">>

\* The first n sections run, each in its try: an exception that leaves a section
\* ends the call.
RECURSIVE RunSections(_, _, _, _)
RunSections(n, db, person, details) ==
    IF n = 0 THEN Result(db, "none", None)
    ELSE LET before == RunSections(n - 1, db, person, details)
         IN  IF before.exc # "none" THEN before
             ELSE LET r == TryExcept(Section(Sections[n], before.db, person, details))
                  IN  Result(r.db, r.exc, None)

\* populate_details(person_object, details)
populate_details(db, person, details) == RunSections(Len(Sections), db, person, details)

----------------------------------------------------------------------------
(* Inputs *)

\* A local part of 14 characters: with a sub-address the username has 16.
LongLocal == <<"a", "b", "c", "d", "e", "f", "g", "h", "i", "j", "k", "l", "m", "n">>

Long16 == LongLocal \o <<"o", "p">>

Locals == {<<"a", "b">>, LongLocal}

Subs == {<<"1">>, <<"c", ".", "s">>}

\* local@sub.iitr.ac.in and local@iitr.ac.in
SubEmail(local, sub) == local \o <<"@">> \o sub \o <<".">> \o IitrDomain

PlainEmail(local) == local \o <<"@">> \o IitrDomain

Emails ==
    {SubEmail(l, s) : l \in Locals, s \in Subs} \cup {PlainEmail(l) : l \in Locals}
    \cup {Absent, <<"@">> \o IitrDomain}

Usernames == {None, <<>>, <<"x">>, Long16}

Names == {<<"r", "a", "m">>, <<"R", "A", "M", " ", "d", "e", "v">>}

AcadData(email, name) == Dict([IITREmailID |-> email, Name |-> name])

\* The calls that set up the persons the other operations are called for.
FewUsernames == {<<"x">>, <<"y">>}

FewAcadData == AcadData(PlainEmail(<<"y">>), <<"r", "a", "m">>)

StudentData ==
    {Dict([SemesterID |-> sem, EnrollmentNo |-> <<"1", "7">>, ProgramID |-> prog,
           Fathersname |-> g[1], MotherName |-> g[2]]) :
        sem \in {<<"1", "5", "0">>, <<"A", "2", "1">>, <<"A", "2">>},
        prog \in {<<"1", "1">>, <<"9", "9">>},
        g \in {<<Absent, Absent>>, <<<<"o", "m">>, <<"u", "m", "a">>>>}}

FacultyData ==
    {Dict([EmployeeNo |-> no, DepartmentAlphaCode |-> dept,
           Designation |-> <<"P", "r", "o", "f", "e", "s", "s", "o", "r">>]) :
        no \in {<<"7">>, <<"8">>},
        dept \in {<<"C", "S", "E">>, <<"E", "E">>}}

\* 2000-02-29T00:00:00, a date; 29/02/2000, malformed; 2001-02-29T00:00:00, no date.
Dates1 ==
    <<"2", "0", "0", "0", "-", "0", "2", "-", "2", "9", "T", "0", "0", ":", "0", "0", ":", "0", "0">>

Dates2 == <<"2", "9", "/", "0", "2", "/", "2", "0", "0", "0">>

Dates3 ==
    <<"2", "0", "0", "1", "-", "0", "2", "-", "2", "9", "T", "0", "0", ":", "0", "0", ":", "0", "0">>

Dates == {Absent, Dates1, Dates2, Dates3}

Bhawans == {Absent, <<"R", "A", "J", "I", "V">>, <<"G", "a", "n", "g", "a">>}

BloodGroups ==
    {Absent, None, <<>>, <<"o", "-">>, <<" ", "a", " ", "+">>, <<"A", "B", "+", "\t">>,
     <<"A", "\t", "+">>, <<"x">>}

Details(name, bhawan, dob, email, blood, gender) ==
    Dict([Name |-> name, IITREmailID |-> PlainEmail(<<"y">>),
          Bhawan |-> bhawan, DateofBirth |-> dob, EmailID |-> email,
          BloodGroup |-> blood, Gender |-> gender,
          Nationality |-> <<"n", "e", "p", "a", "l">>])

Ram == <<"r", "a", "m">>

Rajiv == <<"R", "A", "J", "I", "V">>

Female == <<"F", "e", "m", "a", "l", "e">>

DetailsSet ==
    {Details(Ram, b, d, IF d = Absent THEN Absent ELSE <<"r", "@", "x">>,
             <<"B", "+">>, Absent) : b \in Bhawans, d \in Dates}
    \cup {Details(Ram, Rajiv, Absent, Absent, g,
                  IF g \in {Absent, <<"o", "-">>} THEN Female ELSE Absent) :
            g \in BloodGroups}

\* The records of the import runs: one with every key, one whose date is
\* malformed and whose Bhawan is missing, one with no Name.
ImportRecords ==
    {Details(Ram, Rajiv, Dates1, <<"r", "@", "x">>, <<"B", "+">>, Female),
     Details(Ram, Absent, Dates2, Absent, Absent, Absent),
     Details(Absent, Rajiv, Absent, Absent, Absent, Absent)}

Schemas == [username_max_length : BOOLEAN, person_user_unique : BOOLEAN]

----------------------------------------------------------------------------
(* Actions *)

NoCall == [op |-> "none"]

Init ==
    /\ users = {}
    /\ persons = {}
    /\ info = [k \in Kinds |-> {}]
    /\ residences = {}
    /\ students = {}
    /\ faculty = {}
    /\ schema \in Schemas
    /\ last = NoCall
    /\ calls = 0

\* The store after a call.
Store(db) ==
    /\ users' = db.users
    /\ persons' = db.persons
    /\ info' = db.info
    /\ residences' = db.residences
    /\ students' = db.students
    /\ faculty' = db.faculty

Called(max) == calls < max /\ calls' = calls + 1 /\ UNCHANGED schema

CreateUser(max, username, is_faculty, acad_data) ==
    LET r == create_user(DB, username, is_faculty, acad_data)
    IN  /\ Called(max)
        /\ Store(r.db)
        /\ last' = [op |-> "create_user", username |-> username,
                    is_faculty |-> is_faculty, acad_data |-> acad_data,
                    exc |-> r.exc, value |-> r.value]

CreateFaculty(max, data, person) ==
    LET r == create_faculty(DB, data, person)
    IN  /\ Called(max)
        /\ Store(r.db)
        /\ last' = [op |-> "create_faculty", data |-> data, person |-> person,
                    exc |-> r.exc, value |-> r.value]

CreateStudent(max, data, person) ==
    LET r == create_student(DB, data, person)
    IN  /\ Called(max)
        /\ Store(r.db)
        /\ last' = [op |-> "create_student", data |-> data, person |-> person,
                    exc |-> r.exc, value |-> r.value]

PopulateDetails(max, person, details) ==
    LET r == populate_details(DB, person, details)
    IN  /\ Called(max)
        /\ Store(r.db)
        /\ last' = [op |-> "populate_details", person |-> person, details |-> details,
                    exc |-> r.exc,
                    had |-> {k \in Kinds : HasRow(info[k], person)},
                    created |-> {k \in Kinds : r.db.info[k] # info[k]}]

PersonIds == {p.id : p \in persons}

CreateUserAny(max) ==
    \E username \in Usernames, is_faculty \in BOOLEAN, email \in Emails, name \in Names :
        CreateUser(max, username, is_faculty, AcadData(email, name))

CreateUserFew(max) ==
    \E username \in FewUsernames : CreateUser(max, username, FALSE, FewAcadData)

CreateFacultyAny(max) ==
    \E data \in FacultyData, person \in PersonIds : CreateFaculty(max, data, person)

CreateStudentAny(max) ==
    \E data \in StudentData, person \in PersonIds : CreateStudent(max, data, person)

PopulateDetailsAny(max) ==
    \E person \in PersonIds, details \in DetailsSet : PopulateDetails(max, person, details)

\* create_user alone, with every input.
NextUser == CreateUserAny(MaxUserCalls)

SpecUser == Init /\ [][NextUser]_vars

\* The role records of the persons create_user made.
NextRole ==
    \/ CreateUserFew(MaxRoleCalls)
    \/ CreateFacultyAny(MaxRoleCalls)
    \/ CreateStudentAny(MaxRoleCalls)

SpecRole == Init /\ [][NextRole]_vars

\* The sub-profiles of the persons create_user made.
NextDetails ==
    \/ CreateUserFew(MaxDetailsCalls)
    \/ PopulateDetailsAny(MaxDetailsCalls)

SpecDetails == Init /\ [][NextDetails]_vars

\* The import of a record: create_user, then populate_details, with the record.
CreateUserImport(max) ==
    \E is_faculty \in BOOLEAN, record \in ImportRecords :
        CreateUser(max, <<"x">>, is_faculty, record)

PopulateDetailsImport(max) ==
    \E person \in PersonIds, record \in ImportRecords :
        PopulateDetails(max, person, record)

NextImport ==
    \/ CreateUserImport(MaxImportCalls)
    \/ PopulateDetailsImport(MaxImportCalls)

SpecImport == Init /\ [][NextImport]_vars

Next ==
    \/ CreateUserAny(MaxCalls)
    \/ CreateFacultyAny(MaxCalls)
    \/ CreateStudentAny(MaxCalls)
    \/ PopulateDetailsAny(MaxCalls)

Spec == Init /\ [][Next]_vars

----------------------------------------------------------------------------
(* Properties *)

PopulateCalled == last.op = "populate_details"

\* The row of a kind the person of the last call has.
InfoRow(kind) == CHOOSE r \in info[kind] : r.person = last.person

\* C1: populate_details raises nothing, and it creates the sub-profile of each
\* kind exactly when that kind's own section, run alone for a person who has
\* none of the kind, creates it: whatever the other five sections do.
C1_FailureIsolation ==
    PopulateCalled =>
        /\ last.exc = "none"
        /\ \A k \in Kinds :
              k \in last.created <=>
                  /\ k \notin last.had
                  /\ Section(k, EmptyDB, last.person, last.details).db.info[k] # {}

\* C1, reached: a malformed DateofBirth failed the biological record and the other five
\* sub-profiles were created.
C1_Witness ==
    /\ PopulateCalled
    /\ Get(last.details, "DateofBirth", <<>>) = Dates2
    /\ last.created = Kinds \ {"biological"}

\* C2: every User has a username of at most 15 characters and no two Users
\* share a username.
C2_UsernamesShortAndUnique ==
    /\ \A u \in users : u.username = None \/ Len(u.username) <= UsernameMaxLength
    /\ \A u1, u2 \in users : u1.username = u2.username => u1 = u2

\* One import run: create_user, then populate_details for the person it returns.
ImportRun(db, username, is_faculty, record) ==
    LET u == create_user(db, username, is_faculty, record)
    IN  IF u.exc # "none" THEN u
        ELSE populate_details(u.db, u.value.person.id, record)

\* The store holds no duplicate: one User of a username, one Person of a user
\* and a full name, one sub-profile of a kind for a person.
NoDuplicate(db) ==
    /\ \A u1, u2 \in db.users : u1.username = u2.username => u1 = u2
    /\ \A p1, p2 \in db.persons :
          p1.user # 0 /\ p1.user = p2.user /\ p1.full_name = p2.full_name => p1 = p2
    /\ \A k \in Kinds : \A r1, r2 \in db.info[k] : r1.person = r2.person => r1 = r2

\* C3: from every store, the import of a record run twice leaves the store the
\* first run left, and that store holds no duplicate.
C3_ImportIdempotent ==
    \A is_faculty \in BOOLEAN, record \in ImportRecords :
        LET once == ImportRun(DB, <<"x">>, is_faculty, record)
            twice == ImportRun(once.db, <<"x">>, is_faculty, record)
        IN  /\ twice.db = once.db
            /\ twice.exc = once.exc
            /\ NoDuplicate(once.db)

\* C3, reached: populate_details ran again for a person who had all six sub-profiles, and
\* created none.
C3_Witness ==
    /\ PopulateCalled
    /\ last.had = Kinds
    /\ last.created = {}
    /\ \A k \in Kinds : Cardinality({r \in info[k] : r.person = last.person}) = 1

\* C4: no person has two Student records, and a create_faculty call that returns
\* leaves a FacultyMember record whose person is the call's person.
C4_OneRolePerPerson ==
    /\ \A s1, s2 \in students : s1.person = s2.person => s1 = s2
    /\ last.op = "create_faculty" /\ last.exc = "none" =>
          \E f \in faculty : f.person = last.person

\* The username create_user checks for a faculty call is missing, empty or long.
C5_BadUsername(call) ==
    LET uname == FacultyUsername(call.username, call.is_faculty, call.acad_data)
    IN  uname = None \/ uname = <<>> \/ Len(uname) > UsernameMaxLength

\* C5: a faculty create_user call whose username is missing, empty or longer than
\* 15 characters raises and leaves the Users and the Persons as they were.
C5_FacultyHardFailure ==
    [][last'.op = "create_user" /\ last'.is_faculty /\ C5_BadUsername(last') =>
          last'.exc # "none" /\ users' = users /\ persons' = persons]_vars

\* What a faculty call does with the username the email gives: longer than 15
\* characters, ValueError; else a User of that username is in the store, and it
\* is the User returned.
C6_Derived(expected) ==
    IF Len(expected) > UsernameMaxLength
    THEN last.exc = "ValueError"
    ELSE /\ \E u \in users : u.username = expected
         /\ last.exc # "ValueError"
         /\ last.exc = "none" => last.value.user.username = expected

\* C6: for a faculty call the username is local + "f" + sub for the email
\* local@sub.iitr.ac.in and local for local@iitr.ac.in, whatever username the
\* caller supplied.
C6_FacultyUsername ==
    last.op = "create_user" /\ last.is_faculty =>
        \A local \in Locals :
            /\ \A sub \in Subs :
                  Get(last.acad_data, "IITREmailID", <<>>) = SubEmail(local, sub) =>
                      C6_Derived(local \o <<"f">> \o sub)
            /\ Get(last.acad_data, "IITREmailID", <<>>) = PlainEmail(local) =>
                  C6_Derived(local)

\* C6, reached: ab@1.iitr.ac.in gave abf1 though the caller supplied x.
C6_Witness ==
    /\ last.op = "create_user" /\ last.is_faculty /\ last.exc = "none"
    /\ last.username = <<"x">>
    /\ Get(last.acad_data, "IITREmailID", <<>>) = SubEmail(<<"a", "b">>, <<"1">>)
    /\ last.value.user.username = <<"a", "b", "f", "1">>

StudentSaved == last.op = "create_student" /\ last.exc = "none"

\* C7 as claimed: SemesterID "150" gives current_year 1, and current_semester is
\* (current_year - 1) * 2 + half + 1, half the third character.
C7_Year1For150 ==
    StudentSaved /\ last.data["SemesterID"] = <<"1", "5", "0">> =>
        /\ last.value.current_year = 1
        /\ last.value.current_semester =
              (last.value.current_year - 1) * 2 + DigitValue(last.data["SemesterID"][3]) + 1

\* C7 as amended: the saved Student's current_year is the second character of
\* the code, 5 for "150", and its current_semester is
\* (current_year - 1) * 2 + half + 1, half the third character: 9 for "150".
C7_SemesterDecoding ==
    StudentSaved =>
        /\ last.value \in students
        /\ last.value.current_year = DigitValue(last.data["SemesterID"][2])
        /\ last.value.current_semester =
              (last.value.current_year - 1) * 2 + DigitValue(last.data["SemesterID"][3]) + 1
        /\ last.data["SemesterID"] = <<"1", "5", "0">> =>
              last.value.current_year = 5 /\ last.value.current_semester = 9

\* C7, reached: a Student saved for "150" has current_year 5.
C7_Witness ==
    /\ StudentSaved
    /\ last.data["SemesterID"] = <<"1", "5", "0">>
    /\ last.value.current_year = 5

\* C8: create_student returned for a record with Fathersname and MotherName:
\* two Persons of those names, title-cased, are parents of the student's person.
C8_GuardiansCreated ==
    StudentSaved /\ {"Fathersname", "MotherName"} \subseteq DOMAIN last.data =>
        \E father, mother \in persons :
            /\ father # mother
            /\ father.full_name = Title(last.data["Fathersname"])
            /\ mother.full_name = Title(last.data["MotherName"])
            /\ \E p \in persons :
                  p.id = last.person /\ {father.id, mother.id} \subseteq p.parents

\* The residence code of a record: that of the residence whose name is Bhawan
\* but for case, "nor" in every other case.
C9_Expected(details) ==
    IF "Bhawan" \in DOMAIN details
    THEN CodeByName(RESIDENCES, details["Bhawan"], NotAResident)
    ELSE NotAResident

\* C9: populate_details, for a person with no ResidentialInformation, creates
\* one, with the residence code of the record.
C9_ResidenceDefault ==
    PopulateCalled /\ "residential" \notin last.had =>
        \E r \in info["residential"] :
            r.person = last.person /\ r.residence = C9_Expected(last.details)

\* The source BloodGroup of a record, upper-cased, with the characters of strip
\* off both ends and every space removed; O+ when there is none.
C10_Cleaned(details, strip) ==
    LET source == Get(details, "BloodGroup", None)
    IN  IF source = None \/ source = <<>> THEN <<"O", "+">>
        ELSE Remove(Strip(Upper(source), strip), <<" ">>)

C10_Default(cleaned) == IF cleaned \in all_blood_groups THEN cleaned ELSE <<"O", "+">>

BiologicalCreated == PopulateCalled /\ "biological" \in last.created

\* C10 as claimed: the blood group saved is the source with its case raised and
\* its spaces removed when that is one of the eight, and O+ otherwise.
C10_SpacesRemoved ==
    BiologicalCreated =>
        InfoRow("biological").blood_group = C10_Default(C10_Cleaned(last.details, {}))

\* C10 as amended: every BiologicalInformation has one of the eight blood
\* groups; the one saved is the source with its case raised, the white space
\* off its ends and its spaces removed when that is one of the eight, and O+
\* otherwise.
C10_BloodGroupDefault ==
    /\ \A r \in info["biological"] : r.blood_group \in all_blood_groups
    /\ BiologicalCreated =>
          InfoRow("biological").blood_group =
              C10_Default(C10_Cleaned(last.details, Whitespace))

\* C10, reached: "AB+" followed by a tab was saved as AB+.
C10_Witness ==
    /\ BiologicalCreated
    /\ Get(last.details, "BloodGroup", <<>>) = <<"A", "B", "+", "\t">>
    /\ InfoRow("biological").blood_group = <<"A", "B", "+">>

====
